---- MODULE Spec2Model ----
(***************************************************************************)
(* Model of gui_agents/grounding_model/server.py: the FastAPI server that  *)
(* loads a vision-language grounding model and serves GET /health,         *)
(* POST /v1/chat/completions and POST /grounding/generate.                 *)
(*                                                                         *)
(* Python strings are sequences of one-character strings.  The libraries   *)
(* the server calls (base64, PIL, transformers) are modelled by what the   *)
(* server observes of them: a value or the class of the exception raised.  *)
(***************************************************************************)
EXTENDS Integers, Sequences, FiniteSets, TLC

VARIABLES
    model,        \* global `model`: "None" or "loaded"
    model_type,   \* global `model_type`: "None", "vision2seq", "blip", "auto", "causal"
    pending,      \* the number of requests received and waiting for the event loop
    running,      \* the event loop is inside a handler, blocked in model.generate
    last,         \* <<e>>: the exchange the event loop is in, until its response is written
    ex_messages,  \* extract_text_and_image: argument
    ex_result,    \* extract_text_and_image: return value
    phase,        \* "startup" (lifespan not yet run), "serving", or "exited" (load_model raised)
    dec_input,    \* decode_image_from_base64: argument
    dec_result    \* decode_image_from_base64: what was handed to b64decode, and the outcome

vars == <<model, model_type, phase, pending, running, last,
          ex_messages, ex_result, dec_input, dec_result>>

serverVars == <<model, model_type, phase, pending, running, last>>
extractVars == <<ex_messages, ex_result>>
decodeVars == <<dec_input, dec_result>>

(***************************************************************************)
(* Bounds of the model.                                                    *)
(***************************************************************************)
MaxMsgs == 2
MaxParts == 2
MaxDataLen == 4
MaxTextLen == 4
MaxPending == 1

None == "None"

(***************************************************************************)
(* Python str operations.                                                  *)
(***************************************************************************)
Whitespace == {" ", "\n", "\t"}

RECURSIVE lstrip(_)
lstrip(s) ==
    IF s = <<>> THEN <<>>
    ELSE IF Head(s) \in Whitespace THEN lstrip(Tail(s)) ELSE s

RECURSIVE rstrip(_)
rstrip(s) ==
    IF s = <<>> THEN <<>>
    ELSE IF s[Len(s)] \in Whitespace THEN rstrip(SubSeq(s, 1, Len(s) - 1)) ELSE s

\* str.strip()
strip(s) == rstrip(lstrip(s))

\* sep.join(parts), sep a string
RECURSIVE join(_, _)
join(sep, parts) ==
    IF parts = <<>> THEN <<>>
    ELSE IF Len(parts) = 1 THEN parts[1]
    ELSE parts[1] \o sep \o join(sep, Tail(parts))

\* s.startswith(prefix)
startswith(s, prefix) ==
    /\ Len(s) >= Len(prefix)
    /\ SubSeq(s, 1, Len(prefix)) = prefix

\* s.split(c), c one character: the segments between the occurrences of c
RECURSIVE split(_, _)
split(s, c) ==
    IF \A i \in 1..Len(s) : s[i] # c THEN <<s>>
    ELSE LET k == CHOOSE i \in 1..Len(s) : s[i] = c /\ \A j \in 1..(i - 1) : s[j] # c
         IN  <<SubSeq(s, 1, k - 1)>> \o split(SubSeq(s, k + 1, Len(s)), c)

\* dict.get(key, default)
Get(d, key, default) == IF key \in DOMAIN d THEN d[key] ELSE default

(***************************************************************************)
(* Images.  base64.b64decode (validate=False) drops the characters outside *)
(* the base64 alphabet and needs a whole number of 4-character groups; the *)
(* bytes are written as the characters that encode them.  Image.open       *)
(* accepts the byte strings of ImageFiles.                                 *)
(***************************************************************************)
B64Alphabet == {"A", "B", "a", "d", "t", "x"}

RECURSIVE Filter(_, _)
Filter(s, keep) ==
    IF s = <<>> THEN <<>>
    ELSE IF Head(s) \in keep THEN <<Head(s)>> \o Filter(Tail(s), keep)
    ELSE Filter(Tail(s), keep)

NoImage == [pixels |-> None, mode |-> None]

ImageFiles == {<<"A", "A", "A", "A">>, <<"B", "B", "B", "B">>}

\* Image.open(io.BytesIO(bytes)) of a known file: its pixels, in the file's own mode
ImageOpen(bytes) == [pixels |-> bytes[1], mode |-> IF bytes[1] = "A" THEN "RGBA" ELSE "P"]

\* image.convert("RGB")
ConvertRGB(img) == [pixels |-> img.pixels, mode |-> "RGB"]

\* The payload the function hands to base64.b64decode (lines 198-199).
B64Payload(image_data) ==
    IF \E i \in 1..Len(image_data) : image_data[i] = ","
    THEN split(image_data, ",")[2]
    ELSE image_data

\* decode_image_from_base64: [ok, image, exc, payload]
decode_image_from_base64(image_data) ==
    LET payload == B64Payload(image_data)
        bytes == Filter(payload, B64Alphabet)
    IN  IF Len(bytes) % 4 # 0
        THEN [ok |-> FALSE, image |-> NoImage, exc |-> "binascii.Error", payload |-> payload]
        ELSE IF bytes \notin ImageFiles
        THEN [ok |-> FALSE, image |-> NoImage, exc |-> "UnidentifiedImageError",
              payload |-> payload]
        ELSE [ok |-> TRUE, image |-> ConvertRGB(ImageOpen(bytes)), exc |-> None,
              payload |-> payload]

(***************************************************************************)
(* extract_text_and_image                                                  *)
(***************************************************************************)
DataPrefix == <<"d", "a", "t", "a", ":">>

\* ExtractItem without the test url.startswith("data:").
ExtractItemNoPrefixTest(acc, content_item) ==
    IF Get(content_item, "type", None) = "text"
    THEN [acc EXCEPT !.text_parts = Append(@, Get(content_item, "text", <<>>))]
    ELSE IF Get(content_item, "type", None) = "image_url"
    THEN LET image_url == Get(content_item, "image_url", <<>>)
             url == Get(image_url, "url", <<>>)
             d == decode_image_from_base64(url)
         IN  IF d.ok THEN [acc EXCEPT !.image = d.image] ELSE acc
    ELSE acc

\* One content item of a user message applied to the accumulators
\* acc = [text_parts, image] (lines 215-226).
ExtractItem(acc, content_item) ==
    IF Get(content_item, "type", None) = "text"
    THEN [acc EXCEPT !.text_parts = Append(@, Get(content_item, "text", <<>>))]
    ELSE IF Get(content_item, "type", None) = "image_url"
    THEN LET image_url == Get(content_item, "image_url", <<>>)
             url == Get(image_url, "url", <<>>)
         IN  IF startswith(url, DataPrefix)
             THEN LET d == decode_image_from_base64(url)
                  IN  IF d.ok THEN [acc EXCEPT !.image = d.image] ELSE acc
             ELSE acc
    ELSE acc

RECURSIVE ExtractContent(_, _)
ExtractContent(acc, content) ==
    IF content = <<>> THEN acc
    ELSE ExtractContent(ExtractItem(acc, Head(content)), Tail(content))

\* ExtractMessage without the test of the role.
ExtractMessageAnyRole(acc, message) == ExtractContent(acc, message.content)

\* One message applied to the accumulators (lines 213-214).
ExtractMessage(acc, message) ==
    IF message.role = "user" THEN ExtractContent(acc, message.content) ELSE acc

RECURSIVE ExtractMessages(_, _)
ExtractMessages(acc, messages) ==
    IF messages = <<>> THEN acc
    ELSE ExtractMessages(ExtractMessage(acc, Head(messages)), Tail(messages))

extract_text_and_image(messages) ==
    LET acc == ExtractMessages([text_parts |-> <<>>, image |-> NoImage], messages)
    IN  [prompt |-> strip(join(<<"\n">>, acc.text_parts)), image |-> acc.image]

(***************************************************************************)
(* Inputs of the pure functions.                                           *)
(***************************************************************************)
UrlA == DataPrefix \o <<",", "A", "A", "A", "A">>
UrlB == DataPrefix \o <<",", "B", "B", "B", "B">>
UrlBad == DataPrefix \o <<",", "!">>
UrlExternal == <<"x", ",", "A", "A", "A", "A">>

TextItem(t) == [type |-> "text", text |-> t]
ImageItem(u) == [type |-> "image_url", image_url |-> [url |-> u]]

Items ==
    {TextItem(<<"a">>), TextItem(<<" ", "b", " ">>), [type |-> "text"],
     ImageItem(UrlA), ImageItem(UrlB), ImageItem(UrlBad), ImageItem(UrlExternal),
     [type |-> "image_url"]}

Roles == {"system", "user", "assistant"}

\* The message list of n messages with the given roles whose contents are the
\* consecutive pieces of items: item k belongs to message owner[k].
MessageList(n, roles, items, owner) ==
    [i \in 1..n |->
        [role |-> roles[i],
         content |-> SubSeq(items,
                            Cardinality({k \in 1..Len(items) : owner[k] < i}) + 1,
                            Cardinality({k \in 1..Len(items) : owner[k] <= i}))]]

Strings(chars, n) == UNION {[1..k -> chars] : k \in 0..n}

DataChars == {",", "A", "!"}

ServerIdle ==
    /\ model = None
    /\ model_type = None
    /\ phase = "startup"
    /\ pending = 0
    /\ running = FALSE
    /\ last = <<>>

ExtractIdle ==
    /\ ex_messages = <<>>
    /\ ex_result = [called |-> FALSE, prompt |-> <<>>, image |-> NoImage]

DecodeIdle ==
    /\ dec_input = <<>>
    /\ dec_result = [called |-> FALSE, ok |-> FALSE, image |-> NoImage, exc |-> None,
                     payload |-> <<>>]

(***************************************************************************)
(* extract_text_and_image as a specification: one call, on any list of at   *)
(* most MaxMsgs messages holding at most MaxParts content items in all.    *)
(***************************************************************************)
InitExtract ==
    /\ ServerIdle
    /\ DecodeIdle
    /\ \E n \in 0..MaxMsgs, p \in 0..MaxParts :
          \E roles \in [1..n -> Roles], items \in [1..p -> Items], owner \in [1..p -> 1..n] :
             /\ \A k \in 1..(p - 1) : owner[k] <= owner[k + 1]
             /\ ex_messages = MessageList(n, roles, items, owner)
    /\ ex_result = [called |-> FALSE, prompt |-> <<>>, image |-> NoImage]

Extract ==
    /\ ~ex_result.called
    /\ LET r == extract_text_and_image(ex_messages)
       IN  ex_result' = [called |-> TRUE, prompt |-> r.prompt, image |-> r.image]
    /\ UNCHANGED <<ex_messages, serverVars, decodeVars>>

SpecExtract == InitExtract /\ [][Extract]_vars

(***************************************************************************)
(* decode_image_from_base64 as a specification: any string, one call.      *)
(***************************************************************************)
InitDecode ==
    /\ ServerIdle
    /\ ExtractIdle
    /\ dec_input \in Strings(DataChars, MaxDataLen)
    /\ dec_result = [called |-> FALSE, ok |-> FALSE, image |-> NoImage, exc |-> None,
                     payload |-> <<>>]

Decode ==
    /\ ~dec_result.called
    /\ LET d == decode_image_from_base64(dec_input)
       IN  dec_result' = [called |-> TRUE, ok |-> d.ok, image |-> d.image, exc |-> d.exc,
                          payload |-> d.payload]
    /\ UNCHANGED <<dec_input, serverVars, extractVars>>

SpecDecode == InitDecode /\ [][Decode]_vars

(***************************************************************************)
(* Claims about extract_text_and_image.                                    *)
(***************************************************************************)
Positions(ms) == UNION {{<<i, j>> : j \in 1..Len(ms[i].content)} : i \in 1..Len(ms)}

Before(p, q) == p[1] < q[1] \/ (p[1] = q[1] /\ p[2] < q[2])

ItemAt(ms, p) == ms[p[1]].content[p[2]]

IsDataUrl(u) == Len(u) >= 5 /\ u[1] = "d" /\ u[2] = "a" /\ u[3] = "t" /\ u[4] = "a" /\ u[5] = ":"

UrlOf(item) ==
    IF "image_url" \in DOMAIN item /\ "url" \in DOMAIN item.image_url
    THEN item.image_url.url ELSE <<>>

\* The positions of the data-URL image parts of user messages that decode.
DecodedImages(ms) ==
    {p \in Positions(ms) :
        /\ ms[p[1]].role = "user"
        /\ ItemAt(ms, p).type = "image_url"
        /\ IsDataUrl(UrlOf(ItemAt(ms, p)))
        /\ decode_image_from_base64(UrlOf(ItemAt(ms, p))).ok}

LastOf(ps) == CHOOSE p \in ps : \A q \in ps : q = p \/ Before(q, p)

\* C4: the image returned is that of the last data-URL image part of a user
\* message, in message order then part order, whose decode succeeds; a failed
\* decode, a non-user message and a URL without the data-URL prefix change
\* nothing; the image is absent when no such part decodes.
C4_LastDecodedImageWins ==
    ex_result.called =>
        LET ps == DecodedImages(ex_messages)
        IN  IF ps = {} THEN ex_result.image = NoImage
            ELSE ex_result.image =
                     decode_image_from_base64(UrlOf(ItemAt(ex_messages, LastOf(ps)))).image

\* Two user messages, image A in the first and image B in a later one, both
\* data URLs that decode: B is returned.
C4_Witness ==
    /\ ex_result.called
    /\ \E p, q \in DecodedImages(ex_messages) :
          /\ Before(p, q)
          /\ p[1] # q[1]
          /\ UrlOf(ItemAt(ex_messages, p)) = UrlA
          /\ UrlOf(ItemAt(ex_messages, q)) = UrlB
    /\ ex_result.image = [pixels |-> "B", mode |-> "RGB"]

\* The positions of the text parts of user messages.
UserTexts(ms) ==
    {p \in Positions(ms) : ms[p[1]].role = "user" /\ ItemAt(ms, p).type = "text"}

TextOf(item) == IF "text" \in DOMAIN item THEN item.text ELSE <<>>

\* The texts of ps in position order.
TextsInOrder(ms, ps) ==
    [k \in 1..Cardinality(ps) |->
        TextOf(ItemAt(ms, CHOOSE p \in ps : Cardinality({q \in ps : Before(q, p)}) = k - 1))]

RECURSIVE NewlineJoined(_)
NewlineJoined(ts) ==
    IF Len(ts) = 0 THEN <<>>
    ELSE IF Len(ts) = 1 THEN ts[1]
    ELSE NewlineJoined(SubSeq(ts, 1, Len(ts) - 1)) \o <<"\n">> \o ts[Len(ts)]

\* r is s without its leading and trailing whitespace.
IsTrimOf(r, s) ==
    /\ r = <<>> \/ (r[1] \notin Whitespace /\ r[Len(r)] \notin Whitespace)
    /\ \E i \in 1..(Len(s) + 1), j \in 0..Len(s) :
          /\ r = SubSeq(s, i, j)
          /\ \A k \in 1..Len(s) : (k < i \/ k > j) => s[k] \in Whitespace

\* C5: the prompt is the texts of the text parts of the user messages, in message
\* order then part order, joined with one newline and trimmed; system and
\* assistant messages contribute nothing.
C5_PromptIsJoinedUserTexts ==
    ex_result.called =>
        IsTrimOf(ex_result.prompt,
                 NewlineJoined(TextsInOrder(ex_messages, UserTexts(ex_messages))))

\* Two user text parts, "a" then " b ": the prompt is "a\n b", the inner space
\* kept and the trailing one trimmed.
C5_Witness ==
    /\ ex_result.called
    /\ Cardinality(UserTexts(ex_messages)) = 2
    /\ ex_result.prompt = <<"a", "\n", " ", "b">>

(***************************************************************************)
(* Claim about decode_image_from_base64.                                   *)
(***************************************************************************)
HasComma(s) == \E i \in 1..Len(s) : s[i] = ","

\* C8: for an input with a comma the payload handed to base64 decoding is the
\* whole remainder after the first comma, further commas included; for an
\* input without a comma it is the whole input.
C8_PayloadIsRemainderAfterFirstComma ==
    dec_result.called =>
        IF HasComma(dec_input)
        THEN \E k \in 1..Len(dec_input) :
                /\ dec_input[k] = ","
                /\ \A j \in 1..(k - 1) : dec_input[j] # ","
                /\ dec_result.payload = SubSeq(dec_input, k + 1, Len(dec_input))
        ELSE dec_result.payload = dec_input

(***************************************************************************)
(* The server.  Exceptions are records [class, detail]; an HTTPException   *)
(* also has status_code.  Its class is neither ValueError nor RuntimeError.*)
(***************************************************************************)
Exc(class, detail) == [class |-> class, detail |-> detail, status_code |-> 0]

HTTPException(status_code, detail) ==
    [class |-> "HTTPException", detail |-> detail, status_code |-> status_code]

\* str(exc): starlette renders an HTTPException as "<status_code>: <detail>".
Str(exc) ==
    IF exc.class = "HTTPException"
    THEN <<ToString(exc.status_code), ": ">> \o exc.detail
    ELSE exc.detail

\* ErrorType with a range test in place of the test for 400.
ErrorTypeAnyClientError(status_code) ==
    IF status_code >= 400 /\ status_code <= 500 THEN "invalid_request_error"
    ELSE "server_error"

\* The error type of the envelope (line 92).
ErrorType(status_code) ==
    IF status_code = 400 THEN "invalid_request_error" ELSE "server_error"

openai_exception_handler(exc) ==
    [status |-> exc.status_code,
     shape |-> "error",
     body |-> [message |-> exc.detail,
               type |-> ErrorType(exc.status_code),
               code |-> exc.status_code]]

(***************************************************************************)
(* load_model: the cascade Vision2Seq, BLIP, AutoModel, CausalLM.  loads   *)
(* is the set of architectures whose from_pretrained calls succeed.        *)
(***************************************************************************)
Architectures == {"vision2seq", "blip", "auto", "causal"}

load_model(loads) ==
    IF "vision2seq" \in loads THEN "vision2seq"
    ELSE IF "blip" \in loads THEN "blip"
    ELSE IF "auto" \in loads THEN "auto"
    ELSE IF "causal" \in loads THEN "causal"
    ELSE None

\* lifespan: load_model() before the first request is served; a RuntimeError
\* ends the process.
Startup ==
    /\ phase = "startup"
    /\ \E loads \in SUBSET Architectures :
          LET t == load_model(loads)
          IN  /\ model_type' = t
              /\ model' = IF t = None THEN None ELSE "loaded"
              /\ phase' = IF t = None THEN "exited" ELSE "serving"
    /\ UNCHANGED <<pending, running, last, extractVars, decodeVars>>

(***************************************************************************)
(* generate_coordinates, in two parts: up to the call of model.generate,   *)
(* and from its return.  template, direct: what the chat-template          *)
(* formatting (lines 275-287) and the direct processor call (lines         *)
(* 291-296) do: "ok" or the class of the exception raised.                 *)
(***************************************************************************)
TemplateOutcomes == {"ok", "AttributeError", "TypeError", "ValueError"}
DirectOutcomes == {"ok", "ValueError"}

\* VisionTypes with the auto type taking the processor branch too.
VisionTypesAndAuto == {"vision2seq", "blip", "auto"}

\* The model types of the processor branch (line 260).
VisionTypes == {"vision2seq", "blip"}

\* FallbackExceptions without TypeError.
FallbackExceptionsAttributeOnly == {"AttributeError"}

\* The exceptions of the formatting step that lead to the direct call (line 288).
FallbackExceptions == {"AttributeError", "TypeError"}

Raised(exc, template, direct, failed_at) ==
    [raised |-> TRUE, exc |-> exc, template |-> template, direct |-> direct,
     failed_at |-> failed_at]

AtGenerate(template, direct) ==
    [raised |-> FALSE, exc |-> Exc(None, <<>>), template |-> template, direct |-> direct,
     failed_at |-> None]

GenerationFailed(detail) == Exc("RuntimeError", <<"Generation failed: ">> \o detail)

generate_coordinates_enter(image, template, direct) ==
    IF model = None
    THEN Raised(Exc("RuntimeError", <<"Model not loaded">>), "skipped", "skipped", "model")
    ELSE IF image = NoImage
    THEN Raised(Exc("ValueError", <<"Image is required for grounding">>),
                "skipped", "skipped", "image")
    ELSE IF model_type \in VisionTypes
    THEN IF template = "ok" THEN AtGenerate("ok", "skipped")
         ELSE IF template \in FallbackExceptions
         THEN IF direct = "ok" THEN AtGenerate(template, "ok")
              ELSE Raised(GenerationFailed(<<direct>>), template, direct, "direct")
         ELSE Raised(GenerationFailed(<<template>>), template, "skipped", "template")
    ELSE IF model_type = "auto"
    THEN Raised(GenerationFailed(<<"AutoModel processing failed: ", "NameError full_prompt">>),
                "skipped", "skipped", "full_prompt")
    ELSE IF model_type = "causal"
    THEN Raised(GenerationFailed(<<"NameError full_prompt">>),
                "skipped", "skipped", "full_prompt")
    ELSE Raised(GenerationFailed(<<"Unknown model type">>), "skipped", "skipped", "type")

\* model.generate and processor.decode: an exception, or the decoded text.
Text(raw) == [ok |-> TRUE, raw |-> raw]
GenerateError == [ok |-> FALSE, raw |-> <<>>]

generate_coordinates_return(gen) ==
    IF gen.ok THEN [raised |-> FALSE, exc |-> Exc(None, <<>>), text |-> strip(gen.raw)]
    ELSE [raised |-> TRUE, exc |-> GenerationFailed(<<"generate">>), text |-> <<>>]

(***************************************************************************)
(* re.findall(r'\d+', text) and int().                                     *)
(***************************************************************************)
Digits == {"0", "1", "2", "3", "4", "5", "6", "7", "8", "9"}

DigitValue(c) ==
    CASE c = "0" -> 0 [] c = "1" -> 1 [] c = "2" -> 2 [] c = "3" -> 3 [] c = "4" -> 4
      [] c = "5" -> 5 [] c = "6" -> 6 [] c = "7" -> 7 [] c = "8" -> 8 [] c = "9" -> 9

RECURSIVE DigitPrefixLen(_)
DigitPrefixLen(t) ==
    IF t = <<>> \/ Head(t) \notin Digits THEN 0 ELSE 1 + DigitPrefixLen(Tail(t))

\* findall_digits with the pattern \d: every digit a match of its own.
RECURSIVE findall_single_digits(_)
findall_single_digits(t) ==
    IF t = <<>> THEN <<>>
    ELSE IF Head(t) \notin Digits THEN findall_single_digits(Tail(t))
    ELSE <<<<Head(t)>>>> \o findall_single_digits(Tail(t))

\* re.findall(r'\d+', t): the maximal runs of digits, left to right.
RECURSIVE findall_digits(_)
findall_digits(t) ==
    IF t = <<>> THEN <<>>
    ELSE IF Head(t) \notin Digits THEN findall_digits(Tail(t))
    ELSE LET n == DigitPrefixLen(t)
         IN  <<SubSeq(t, 1, n)>> \o findall_digits(SubSeq(t, n + 1, Len(t)))

RECURSIVE int(_)
int(s) ==
    IF s = <<>> THEN 0
    ELSE 10 * int(SubSeq(s, 1, Len(s) - 1)) + DigitValue(s[Len(s)])

\* lines 466-470; null is the empty tuple
coordinates_of(response_text) ==
    LET numbers == findall_digits(response_text)
    IN  IF Len(numbers) >= 2 THEN <<int(numbers[1]), int(numbers[2])>> ELSE <<>>

(***************************************************************************)
(* Requests and responses.                                                 *)
(***************************************************************************)
HealthRequest == [kind |-> "health", messages |-> <<>>, prompt |-> <<>>, image |-> <<>>]
ChatRequest(messages) ==
    [kind |-> "chat", messages |-> messages, prompt |-> <<>>, image |-> <<>>]
GroundingRequest(prompt, image) ==
    [kind |-> "grounding", messages |-> <<>>, prompt |-> prompt, image |-> image]

UserMessage(content) == [role |-> "user", content |-> content]

ChatInputs ==
    {<<>>,
     <<UserMessage(<<TextItem(<<"a">>), ImageItem(UrlA)>>)>>,
     <<UserMessage(<<TextItem(<<"a">>)>>), UserMessage(<<ImageItem(UrlB)>>)>>,
     <<UserMessage(<<TextItem(<<"a">>)>>)>>,
     <<UserMessage(<<ImageItem(UrlA)>>)>>,
     <<UserMessage(<<TextItem(<<" ">>), ImageItem(UrlA)>>)>>,
     <<UserMessage(<<TextItem(<<"a">>), ImageItem(UrlBad)>>)>>,
     <<UserMessage(<<TextItem(<<"a">>), ImageItem(UrlExternal)>>)>>,
     <<[role |-> "system", content |-> <<TextItem(<<"a">>), ImageItem(UrlA)>>]>>}

GroundingPrompts == {<<>>, <<"a">>}
GroundingImages == {<<"A", "A", "A", "A">>, UrlB, <<"!">>, <<"A", "A">>}

Requests ==
    {HealthRequest}
    \cup {ChatRequest(ms) : ms \in ChatInputs}
    \cup {GroundingRequest(p, i) : p \in GroundingPrompts, i \in GroundingImages}

\* What the model can answer.
TextChars == {"0", "1", "a", " "}
Generations == {GenerateError} \cup {Text(raw) : raw \in Strings(TextChars, MaxTextLen)}

NoResponse == [status |-> 0, shape |-> "none", body |-> <<>>]

\* An exchange: the request, what its handler did, the response (NoResponse while
\* the handler is in model.generate).  called: generate_coordinates was called;
\* generated: model.generate was invoked; returned: generate_coordinates returned
\* text.
Exchange(req, resp, prompt, image, called, tpl, dir, failed_at, generated, returned, text) ==
    [req |-> req, resp |-> resp, prompt |-> prompt, image |-> image, called |-> called,
     template |-> tpl, direct |-> dir, failed_at |-> failed_at,
     generated |-> generated, returned |-> returned, text |-> text]

(***************************************************************************)
(* GET /health                                                             *)
(***************************************************************************)
health_check ==
    [status |-> 200,
     shape |-> "health",
     body |-> [status |-> "healthy", model_loaded |-> model # None,
               model_type |-> IF model_type = None THEN "unknown" ELSE model_type]]

(***************************************************************************)
(* POST /v1/chat/completions                                               *)
(***************************************************************************)
\* The except clauses of the handler (lines 442-450), in order.
chat_completions_except(exc) ==
    IF exc.class = "ValueError" THEN HTTPException(400, exc.detail)
    ELSE IF exc.class = "RuntimeError" THEN HTTPException(500, exc.detail)
    ELSE HTTPException(500, <<"Internal error: ">> \o Str(exc))

\* Lines 401-415, to the call of model.generate.
chat_completions_enter(request, template, direct) ==
    LET e == extract_text_and_image(request.messages)
    IN  IF e.prompt = <<>>
        THEN [called |-> FALSE, prompt |-> e.prompt, image |-> e.image,
              g |-> Raised(HTTPException(400, <<"No text prompt provided">>),
                           "skipped", "skipped", "prompt")]
        ELSE IF e.image = NoImage
        THEN [called |-> FALSE, prompt |-> e.prompt, image |-> e.image,
              g |-> Raised(HTTPException(400, <<"No image provided">>),
                           "skipped", "skipped", "image")]
        ELSE [called |-> TRUE, prompt |-> e.prompt, image |-> e.image,
              g |-> generate_coordinates_enter(e.image, template, direct)]

\* Lines 418-440.
chat_completions_response(response_text) ==
    [status |-> 200,
     shape |-> "chat.completion",
     body |-> [content |-> response_text, finish_reason |-> "stop"]]

(***************************************************************************)
(* POST /grounding/generate                                                *)
(***************************************************************************)
\* The except clause of the handler (lines 476-478).
grounding_generate_except(exc) == HTTPException(500, Str(exc))

\* Lines 462-463, to the call of model.generate.
grounding_generate_enter(request, template, direct) ==
    LET d == decode_image_from_base64(request.image)
    IN  IF ~d.ok
        THEN [called |-> FALSE, prompt |-> request.prompt, image |-> NoImage,
              g |-> Raised(Exc(d.exc, <<d.exc>>), "skipped", "skipped", "decode")]
        ELSE [called |-> TRUE, prompt |-> request.prompt, image |-> d.image,
              g |-> generate_coordinates_enter(d.image, template, direct)]

\* Lines 466-475.
grounding_generate_response(response_text) ==
    [status |-> 200,
     shape |-> "grounding",
     body |-> [response |-> response_text, coordinates |-> coordinates_of(response_text)]]

(***************************************************************************)
(* The event loop.  The handlers are coroutines that never suspend: the    *)
(* only await is of generate_coordinates, which awaits nothing, so a       *)
(* handler holds the loop from its first line to its response, through the *)
(* synchronous model.generate call.                                        *)
(***************************************************************************)
Init ==
    /\ model = None
    /\ model_type = None
    /\ phase = "startup"
    /\ pending = 0
    /\ running = FALSE
    /\ last = <<>>
    /\ ExtractIdle
    /\ DecodeIdle

\* A client's request reaches the listening socket and waits for the event loop.
Receive ==
    /\ phase = "serving"
    /\ pending < MaxPending
    /\ pending' = pending + 1
    /\ UNCHANGED <<model, model_type, phase, running, last, extractVars, decodeVars>>

\* The event loop, when it is in no handler, reads a waiting request and runs its
\* handler.
HealthCheck ==
    /\ phase = "serving"
    /\ ~running
    /\ last = <<>>
    /\ pending > 0
    /\ pending' = pending - 1
    /\ last' = <<Exchange(HealthRequest, health_check, <<>>, NoImage, FALSE, "skipped",
                          "skipped", None, FALSE, FALSE, <<>>)>>
    /\ UNCHANGED <<model, model_type, phase, running, extractVars, decodeVars>>

\* The handler of a POST request runs to its error response or into model.generate.
Enter(req, h, except) ==
    /\ pending' = pending - 1
    /\ running' = ~h.g.raised
    /\ last' = <<Exchange(req,
                          IF h.g.raised THEN openai_exception_handler(except)
                          ELSE NoResponse,
                          h.prompt, h.image, h.called, h.g.template, h.g.direct,
                          h.g.failed_at, ~h.g.raised, FALSE, <<>>)>>
    /\ UNCHANGED <<model, model_type, phase, extractVars, decodeVars>>

ChatCompletions(req) ==
    /\ phase = "serving"
    /\ ~running
    /\ last = <<>>
    /\ pending > 0
    /\ req.kind = "chat"
    /\ \E template \in TemplateOutcomes, direct \in DirectOutcomes :
          LET h == chat_completions_enter(req, template, direct)
          IN  Enter(req, h, chat_completions_except(h.g.exc))

GroundingGenerate(req) ==
    /\ phase = "serving"
    /\ ~running
    /\ last = <<>>
    /\ pending > 0
    /\ req.kind = "grounding"
    /\ \E template \in TemplateOutcomes, direct \in DirectOutcomes :
          LET h == grounding_generate_enter(req, template, direct)
          IN  Enter(req, h, grounding_generate_except(h.g.exc))

\* model.generate returns or raises, and the handler runs to its response.
GenerateReturns(gen) ==
    /\ running
    /\ LET h == last[1]
           r == generate_coordinates_return(gen)
           resp ==
               IF r.raised
               THEN openai_exception_handler(
                        IF h.req.kind = "chat" THEN chat_completions_except(r.exc)
                        ELSE grounding_generate_except(r.exc))
               ELSE IF h.req.kind = "chat" THEN chat_completions_response(r.text)
               ELSE grounding_generate_response(r.text)
       IN  last' = <<[h EXCEPT !.resp = resp,
                               !.failed_at = IF r.raised THEN "generate" ELSE None,
                               !.returned = ~r.raised,
                               !.text = r.text]>>
    /\ running' = FALSE
    /\ UNCHANGED <<model, model_type, phase, pending, extractVars, decodeVars>>

\* The response is written to the client, and the event loop is free again.
Respond ==
    /\ ~running
    /\ last # <<>>
    /\ last' = <<>>
    /\ UNCHANGED <<model, model_type, phase, pending, running, extractVars, decodeVars>>

Next ==
    \/ Startup
    \/ Receive
    \/ HealthCheck
    \/ \E req \in Requests : ChatCompletions(req)
    \/ \E req \in Requests : GroundingGenerate(req)
    \/ \E gen \in Generations : GenerateReturns(gen)
    \/ Respond

Spec == Init /\ [][Next]_vars

(***************************************************************************)
(* Claims about the endpoints.                                             *)
(***************************************************************************)
\* The event loop has an exchange whose response is complete.
Done == last # <<>> /\ ~running

E == last[1]

IsError(resp, status, type) ==
    /\ resp.status = status
    /\ resp.shape = "error"
    /\ resp.body.type = type

\* C1: a chat request whose extracted prompt is empty or whose extracted image is
\* absent is answered 400 invalid_request_error, and model.generate is not invoked.
C1_MissingPromptOrImageIs400 ==
    (Done /\ E.req.kind = "chat" /\ (E.prompt = <<>> \/ E.image = NoImage)) =>
        (IsError(E.resp, 400, "invalid_request_error") /\ ~E.generated)

DigitRuns(t) ==
    {r \in (1..Len(t)) \X (1..Len(t)) :
        /\ r[1] <= r[2]
        /\ \A k \in r[1]..r[2] : t[k] \in Digits
        /\ r[1] = 1 \/ t[r[1] - 1] \notin Digits
        /\ r[2] = Len(t) \/ t[r[2] + 1] \notin Digits}

RECURSIVE Pow10(_)
Pow10(n) == IF n = 0 THEN 1 ELSE 10 * Pow10(n - 1)

RECURSIVE DecimalValue(_, _, _)
DecimalValue(t, i, j) ==
    IF i > j THEN 0
    ELSE DigitValue(t[i]) * Pow10(j - i) + DecimalValue(t, i + 1, j)

Leftmost(rs) == CHOOSE r \in rs : \A q \in rs : r[1] <= q[1]

\* C3: when generation returns t, /grounding/generate answers 2xx with response t
\* and coordinates [x, y], the values of the first and second maximal digit runs
\* of t from the left; with fewer than two runs it still succeeds, coordinates null.
C3_GroundingCoordinates ==
    (Done /\ E.req.kind = "grounding" /\ E.returned) =>
        /\ E.resp.status \in 200..299
        /\ E.resp.shape = "grounding"
        /\ E.resp.body.response = E.text
        /\ LET rs == DigitRuns(E.text)
           IN  IF Cardinality(rs) < 2 THEN E.resp.body.coordinates = <<>>
               ELSE LET x == Leftmost(rs)
                        y == Leftmost(rs \ {x})
                    IN  E.resp.body.coordinates =
                            <<DecimalValue(E.text, x[1], x[2]),
                              DecimalValue(E.text, y[1], y[2])>>

\* The text "01 1": two runs, the first with a leading zero.
C3_Witness ==
    /\ Done
    /\ E.req.kind = "grounding"
    /\ E.returned
    /\ E.text = <<"0", "1", " ", "1">>
    /\ E.resp.body.coordinates = <<1, 1>>

\* C6: /grounding/generate has the failure mapping of /v1/chat/completions: an
\* empty prompt or an image that cannot be decoded is answered 400
\* invalid_request_error without invoking generation, and 500 is answered only
\* for failures inside generate_coordinates (generation, model not loaded).
C6_GroundingSameFailureMapping ==
    (Done /\ E.req.kind = "grounding") =>
        /\ (E.req.prompt = <<>> \/ ~decode_image_from_base64(E.req.image).ok) =>
              (IsError(E.resp, 400, "invalid_request_error") /\ ~E.generated)
        /\ E.resp.status = 500 => E.called

\* C7: while the generation of one request is in progress, a waiting request is
\* not blocked: some handler can start.
C7_GenerationDoesNotBlockHandlers ==
    (running /\ pending > 0) =>
        \/ ENABLED HealthCheck
        \/ ENABLED (\E req \in Requests : ChatCompletions(req))
        \/ ENABLED (\E req \in Requests : GroundingGenerate(req))

\* The chat-template formatting was attempted and failed.
TemplateFailed == E.template \notin {"ok", "skipped"}

\* C9, as stated: with vision2seq or blip, after any failure of the chat-template
\* formatting the direct encoding is attempted, and the request fails only if the
\* direct encoding or the generation fails.
C9_AnyTemplateFailureFallsBack ==
    (Done /\ E.called /\ model_type \in {"vision2seq", "blip"} /\ TemplateFailed) =>
        /\ E.direct # "skipped"
        /\ E.resp.status \notin 200..299 => E.failed_at \in {"direct", "generate"}

\* C9, amended: after an AttributeError or a TypeError of the chat-template
\* formatting the direct encoding is attempted, and the request fails only if the
\* direct encoding or the generation fails; any other exception of the formatting
\* reaches the caller as a generation failure (500), the direct encoding not tried.
C9_AttributeOrTypeErrorFallsBack ==
    (Done /\ E.called /\ model_type \in {"vision2seq", "blip"} /\ TemplateFailed) =>
        IF E.template \in {"AttributeError", "TypeError"}
        THEN /\ E.direct # "skipped"
             /\ E.resp.status \notin 200..299 => E.failed_at \in {"direct", "generate"}
        ELSE /\ E.direct = "skipped"
             /\ ~E.generated
             /\ E.failed_at = "template"
             /\ IsError(E.resp, 500, "server_error")

\* The formatting raised TypeError, the direct encoding worked, the request succeeded.
C9_Witness ==
    /\ Done
    /\ E.called
    /\ model_type = "blip"
    /\ E.template = "TypeError"
    /\ E.direct = "ok"
    /\ E.returned
    /\ E.resp.status = 200

====
